---- MODULE Spec2Model ----
(***************************************************************************)
(* Model of afxnuketools/metrics.py: the two image statistics centroid and *)
(* max_value, their workers _centroid and _max_value, and the driver loop  *)
(* that dispatches the workers through afxthreads' ImageMultiProcessor.    *)
(*                                                                         *)
(* Floats are modelled as exact rationals <<num, den>> (den > 0, lowest    *)
(* terms), so every statement about a returned number is a statement in    *)
(* exact arithmetic.                                                       *)
(***************************************************************************)
EXTENDS Integers, Sequences, FiniteSets, TLC

\* ------------------------------------------------------------------ bounds
MaxArea == 3
MaxStep == 2
MaxSpecial == 1
NumProcs == 2
Samples == {-1, 0, 1}

\* ------------------------------------------------- exact "float" arithmetic
Abs(i) == IF i < 0 THEN -i ELSE i

RECURSIVE GCD(_, _)
GCD(a, b) == IF b = 0 THEN a ELSE GCD(b, a % b)

\* n/d in lowest terms (the operands and their divisor are bound once, so that
\* nothing is evaluated again at each use)
Norm(n, d) ==
    CHOOSE r \in UNION { { <<v[1] \div g, v[2] \div g>> : g \in {GCD(Abs(v[1]), v[2])} } :
                          v \in {<<n, d>>} } : TRUE

Float(i) == <<i, 1>>
Zero == Float(0)

RAdd(a, b) == Norm(a[1] * b[2] + b[1] * a[2], a[2] * b[2])
RSub(a, b) == Norm(a[1] * b[2] - b[1] * a[2], a[2] * b[2])
RMul(a, b) == Norm(a[1] * b[1], a[2] * b[2])
RLess(a, b) == a[1] * b[2] < b[1] * a[2]
\* a / b for b # 0 (the callers raise ZeroDivisionError themselves when b = 0)
RDiv(a, b) == IF b[1] > 0 THEN Norm(a[1] * b[2], a[2] * b[1])
                          ELSE Norm(-(a[1] * b[2]), a[2] * (-b[1]))
\* Python's max(a, b): b only when b > a
PyMax(a, b) == IF RLess(a, b) THEN b ELSE a

\* ------------------------------------------------------------- the program
VARIABLES
    op,         \* which entry point is called: "centroid" or "max_value"
    node,       \* the host node: bounding box, pixel values, raising pixels
    step,       \* the step argument
    chunks,     \* the sub-regions submitted as jobs
    pending,    \* jobs dispatched to a worker and still running
    completed,  \* outcomes of finished jobs not yet collected by wait_one
    results,    \* mp.results
    cancelled,  \* task.isCancelled()
    aborted,    \* mp.abort() has been called
    pool,       \* "none", "acquired", "released"
    progress,   \* the values passed to task.setProgress, in order
    calls,      \* history: how often mp.abort() was called, and how many
                \* mp.wait_one() calls returned after the user cancelled
    pc,         \* position of the driver
    ret,        \* the returned value
    err         \* the message of the raised Exception

vars == <<op, node, step, chunks, pending, completed, results,
          cancelled, aborted, pool, progress, calls, pc, ret, err>>

None == <<>>

Bounds(x1, y1, x2, y2) == [x1 |-> x1, y1 |-> y1, x2 |-> x2, y2 |-> y2]

\* region = Bounds(bbox.x(), bbox.y(), bbox.w() + bbox.x() - 1, bbox.h() + bbox.y() - 1)
Region(bbox) == Bounds(bbox.x, bbox.y, bbox.w + bbox.x - 1, bbox.h + bbox.y - 1)

\* xrange called without its step argument
XRange_nostep(start, stop, st) ==
    IF stop <= start THEN <<>> ELSE [i \in 1..(stop - start) |-> start + (i - 1)]

\* xrange(start, stop, st) as a sequence
XRange(start, stop, st) ==
    IF stop <= start THEN <<>>
    ELSE [i \in 1..(((stop - start - 1) \div st) + 1) |-> start + (i - 1) * st]

\* the row loop stopping at region.y2 instead of region.y2 + 1
Rows_short(r, st) == XRange(r.y1, r.y2, st)

\* the column loop stopping at region.x2 instead of region.x2 + 1
Cols_short(r, st) == XRange(r.x1, r.x2, st)

\* the values of y (outer loop) and of x (inner loop)
Rows(r, st) == XRange(r.y1, r.y2 + 1, st)
Cols(r, st) == XRange(r.x1, r.x2 + 1, st)

\* the pixels visited by the nested loops, in visiting order
Scan(r, st) ==
    LET ys == Rows(r, st)
        xs == Cols(r, st)
    IN  [k \in 1..(Len(ys) * Len(xs)) |->
            <<xs[((k - 1) % Len(xs)) + 1], ys[((k - 1) \div Len(xs)) + 1]>>]

\* how many times the body of the nested loops runs
NumSamples(r, st) == Len(Rows(r, st)) * Len(Cols(r, st))

\* outcomes of a job: a value or a captured exception
Value(v) == [exc |-> FALSE, tag |-> "value", val |-> v]
Raised(tag, v) == [exc |-> TRUE, tag |-> tag, val |-> v]
\* node.sample(channel, x, y) raising for pixel p
SampleError(p) == Raised("SampleError", <<Float(p[1]), Float(p[2])>>)

\* str(r) as used for the message of the raised Exception: the message of an
\* exception, the printed form of a value
Str(r) == <<IF r.exc THEN r.tag ELSE "repr", r.val>>

\* a division by a count that is one too large
PyDivInt_offbyone(x, n) == Value(Norm(x[1], x[2] * (n + 1)))

\* x / n for an integer n, as Python evaluates it
PyDivInt(x, n) == IF n = 0 THEN Raised("ZeroDivisionError", <<>>)
                  ELSE Value(Norm(x[1], x[2] * n))

\* n += 1, placed before the three divisions
CountSample(n) == n + 1

\* the loop body and loop of _centroid, from sample number i of the scan on
RECURSIVE CentroidLoop(_, _, _, _, _, _, _)
CentroidLoop(nd, px, i, mean_x, mean_y, mean_weight, n) ==
    IF i > Len(px) THEN Value(<<mean_x, mean_y, mean_weight>>)
    ELSE IF px[i] \in nd.bad THEN SampleError(px[i])
    ELSE
      LET weight == Float(nd.val[px[i]])
          n1 == CountSample(n)
          dw == PyDivInt(RSub(weight, mean_weight), n1)
      IN  IF dw.exc THEN dw
          ELSE
            LET mw1 == RAdd(mean_weight, dw.val)
                mx1 == RAdd(mean_x,
                         PyDivInt(RSub(RMul(weight, Float(px[i][1])), mean_x), n1).val)
                my1 == RAdd(mean_y,
                         PyDivInt(RSub(RMul(weight, Float(px[i][2])), mean_y), n1).val)
                \* the new values, each computed once
                next == {<<mx1, my1, mw1, n1>>}
            IN  CHOOSE out \in { CentroidLoop(nd, px, i + 1, v[1], v[2], v[3], v[4]) :
                                    v \in next } : TRUE

_centroid(r, nd, st) == CentroidLoop(nd, Scan(r, st), 1, Zero, Zero, Zero, 0)

\* max_val = 0.0
MaxInit == Zero

RECURSIVE MaxLoop(_, _, _, _)
MaxLoop(nd, px, i, max_val) ==
    IF i > Len(px) THEN Value(<<max_val>>)
    ELSE IF px[i] \in nd.bad THEN SampleError(px[i])
    ELSE MaxLoop(nd, px, i + 1, PyMax(max_val, Float(nd.val[px[i]])))

_max_value(r, nd, st) == MaxLoop(nd, Scan(r, st), 1, MaxInit)

\* the job function handed to process_by_chunks by each entry point
JobFunction(o, r, nd, st) ==
    IF o = "centroid" THEN _centroid(r, nd, st) ELSE _max_value(r, nd, st)

\* ------------------------------------------- ImageMultiProcessor (afxthreads)
\* i-th smallest element of a finite set of integers
RECURSIVE Nth(_, _)
Nth(S, i) == LET m == CHOOSE a \in S : \A b \in S : a <= b
             IN  IF i = 1 THEN m ELSE Nth(S \ {m}, i - 1)

\* the ways of cutting lo..hi into at most k consecutive intervals
Intervals(lo, hi, k) ==
    { [i \in 1..(Cardinality(cuts) + 1) |->
          <<IF i = 1 THEN lo ELSE Nth(cuts, i - 1) + 1,
            IF i = Cardinality(cuts) + 1 THEN hi ELSE Nth(cuts, i)>>] :
      cuts \in {c \in SUBSET (lo..(hi - 1)) : Cardinality(c) <= k - 1} }

\* the sub-regions process_by_chunks may produce: at most k row bands that
\* cover r exactly, cut anywhere
Partitions(r, k) ==
    { [i \in 1..Len(iv) |-> Bounds(r.x1, iv[i][1], r.x2, iv[i][2])] :
        iv \in Intervals(r.y1, r.y2, k) }

\* mp.processes()
Processes == NumProcs

\* mp.is_working()
IsWorking(ch, res, ab) == Len(res) < Len(ch) /\ ~ab

\* mp.state(): FALSE if a job failed or the engine was aborted
EngineState(res, ab) == ~ab /\ \A i \in 1..Len(res) : ~res[i].exc

\* ----------------------------------------------------------- the aggregators
\* the test of line 102 / 151
RaisesOn(st, r) == st = FALSE \/ r.exc

\* index of the first entry of mp.results on which the loop raises, 0 if none
FirstRaise(res, st) ==
    IF \E i \in 1..Len(res) : RaisesOn(st, res[i])
    THEN CHOOSE i \in 1..Len(res) :
            RaisesOn(st, res[i]) /\ \A j \in 1..(i - 1) : ~RaisesOn(st, res[j])
    ELSE 0

\* sum_x = r[0] in place of sum_x += r[0]
SumComp_assign(res, c, i) == IF i = 0 THEN Zero ELSE res[i].val[c]

RECURSIVE SumComp(_, _, _)
SumComp(res, c, i) ==
    IF i = 0 THEN Zero ELSE RAdd(SumComp(res, c, i - 1), res[i].val[c])

\* the guard written sum_weight > 1
Normalise_gt1(sum_weight) == RLess(Float(1), sum_weight)

\* the guard written sum_weight >= 0
Normalise_geq(sum_weight) == ~RLess(sum_weight, Zero)

\* if sum_weight > 0
Normalise(sum_weight) == RLess(Zero, sum_weight)

\* lines 98-114 of centroid: the value to return or the exception to raise
CentroidAggregate(res, st) ==
    LET f == FirstRaise(res, st)
        sum_x == SumComp(res, 1, Len(res))
        sum_y == SumComp(res, 2, Len(res))
        sum_weight == SumComp(res, 3, Len(res))
    IN  IF f # 0 THEN Raised("Exception", Str(res[f]))
        ELSE IF Normalise(sum_weight)
             THEN IF sum_weight = Zero THEN Raised("ZeroDivisionError", <<>>)
                  ELSE Value(<<RDiv(sum_x, sum_weight), RDiv(sum_y, sum_weight)>>)
             ELSE Value(<<sum_x, sum_y>>)

\* max_val = r in place of max_val = max(max_val, r)
MaxOver_last(res, i) == IF i = 0 THEN Zero ELSE res[i].val[1]

\* max_val = 0.0, then max_val = max(max_val, r) for each r
RECURSIVE MaxOver(_, _)
MaxOver(res, i) ==
    IF i = 0 THEN Zero ELSE PyMax(MaxOver(res, i - 1), res[i].val[1])

\* lines 150-155 of max_value
MaxAggregate(res, st) ==
    LET f == FirstRaise(res, st)
    IN  IF f # 0 THEN Raised("Exception", Str(res[f]))
        ELSE Value(<<MaxOver(res, Len(res))>>)

Aggregate(o, res, st) ==
    IF o = "centroid" THEN CentroidAggregate(res, st) ELSE MaxAggregate(res, st)

\* a pool released only when the block ends normally
WithExit_normalonly(outcome) == IF outcome.exc THEN "acquired" ELSE "released"

\* leaving the with block, normally or by an exception
WithExit(outcome) == "released"

\* -------------------------------------------------------------------- states
Pixels(b) == (b.x..(b.x + b.w - 1)) \X (b.y..(b.y + b.h - 1))

\* the images: a background value everywhere except on at most MaxSpecial
\* pixels, each of which holds any sample value or makes node.sample raise
Images(b) ==
    UNION { { [val |-> [p \in Pixels(b) |-> IF p \in t[2] \ t[3] THEN v[p] ELSE t[1]],
               bad |-> t[3]] :
                v \in [t[2] \ t[3] -> Samples] } :
            t \in { u \in Samples \X (SUBSET Pixels(b)) \X (SUBSET Pixels(b)) :
                      u[3] \subseteq u[2] /\ Cardinality(u[2]) <= MaxSpecial } }

\* the corner node.bbox() reports
Origins == {<<1, 2>>}

\* the bounding boxes: any shape of at most MaxArea pixels
BBoxes ==
    { b \in [x : {o[1] : o \in Origins}, y : {o[2] : o \in Origins},
             w : 1..MaxArea, h : 1..MaxArea] :
        <<b.x, b.y>> \in Origins /\ b.w * b.h <= MaxArea }

Nodes ==
    UNION { { [bbox |-> b, val |-> im.val, bad |-> im.bad] : im \in Images(b) } :
            b \in BBoxes }

Init ==
    /\ op \in {"centroid", "max_value"}
    /\ node \in Nodes
    /\ step \in 1..MaxStep
    /\ chunks = <<>>
    /\ pending = {}
    /\ completed = <<>>
    /\ results = <<>>
    /\ cancelled = FALSE
    /\ aborted = FALSE
    /\ pool = "none"
    /\ progress = <<>>
    /\ calls = [abort |-> 0, late_wait |-> 0]
    /\ pc = "idle"
    /\ ret = None
    /\ err = None

\* lines 80-88 / 132-140: build the region, enter the with block, create the
\* progress task and submit one job per sub-region
Call ==
    /\ pc = "idle"
    /\ pool' = "acquired"
    /\ progress' = <<0>>
    /\ \E p \in Partitions(Region(node.bbox), Processes) :
          /\ chunks' = p
          /\ pending' = 1..Len(p)
    /\ pc' = "while"
    /\ UNCHANGED <<op, node, step, completed, results, cancelled, aborted, calls,
                   ret, err>>

\* a worker runs its job to the end; the outcome waits to be collected
WorkerFinish(j) ==
    /\ pool = "acquired"
    /\ j \in pending
    /\ pending' = pending \ {j}
    /\ completed' = Append(completed, JobFunction(op, chunks[j], node, step))
    /\ UNCHANGED <<op, node, step, chunks, results, cancelled, aborted,
                   pool, progress, calls, pc, ret, err>>

\* the user presses cancel on the progress task
UserCancel ==
    /\ pc \in {"while", "if", "wait_one"}
    /\ ~cancelled
    /\ cancelled' = TRUE
    /\ UNCHANGED <<op, node, step, chunks, pending, completed, results,
                   aborted, pool, progress, calls, pc, ret, err>>

\* a loop that leaves only through the break
WhileTest_always ==
    /\ pc = "while"
    /\ pc' = "if"
    /\ UNCHANGED <<op, node, step, chunks, pending, completed, results,
                   cancelled, aborted, pool, progress, calls, ret, err>>

\* while mp.is_working():
WhileTest ==
    /\ pc = "while"
    /\ pc' = IF IsWorking(chunks, results, aborted) THEN "if" ELSE "aggregate"
    /\ UNCHANGED <<op, node, step, chunks, pending, completed, results,
                   cancelled, aborted, pool, progress, calls, ret, err>>

\* the loop body without the isCancelled test
CancelTest_unchecked ==
    /\ pc = "if"
    /\ pc' = "wait_one"
    /\ UNCHANGED <<op, node, step, chunks, pending, completed, results,
                   cancelled, aborted, pool, progress, calls, ret, err>>

\* if task.isCancelled(): mp.abort(); break   else: (go on to wait_one)
CancelTest ==
    /\ pc = "if"
    /\ IF cancelled
       THEN /\ aborted' = TRUE
            /\ calls' = [calls EXCEPT !.abort = @ + 1]
            /\ pc' = "aggregate"
       ELSE /\ aborted' = aborted
            /\ calls' = calls
            /\ pc' = "wait_one"
    /\ UNCHANGED <<op, node, step, chunks, pending, completed, results,
                   cancelled, pool, progress, ret, err>>

\* the percentage of the jobs still to collect
Percent_remaining(len, procs) == (100 * (procs - len)) \div procs

\* int(100.0 * float(len(mp.results)) / float(mp.processes()))
Percent(len, procs) == (100 * len) \div procs

\* mp.wait_one() followed by task.setProgress(progress)
WaitOne ==
    /\ pc = "wait_one"
    /\ completed # <<>>
    /\ results' = Append(results, Head(completed))
    /\ completed' = Tail(completed)
    /\ progress' = Append(progress, Percent(Len(results'), Processes))
    /\ calls' = [calls EXCEPT !.late_wait = @ + (IF cancelled THEN 1 ELSE 0)]
    /\ pc' = "while"
    /\ UNCHANGED <<op, node, step, chunks, pending, cancelled, aborted,
                   pool, ret, err>>

\* the aggregation loop, the end of the with block and the return
Finish ==
    /\ pc = "aggregate"
    /\ LET out == Aggregate(op, results, EngineState(results, aborted))
       IN  /\ pool' = WithExit(out)
           /\ IF out.exc
              THEN pc' = "raised" /\ err' = out.val /\ ret' = ret
              ELSE pc' = "returned" /\ ret' = out.val /\ err' = err
    /\ UNCHANGED <<op, node, step, chunks, pending, completed, results,
                   cancelled, aborted, progress, calls>>

Next ==
    \/ Call
    \/ \E j \in 1..NumProcs : WorkerFinish(j)
    \/ UserCancel
    \/ WhileTest
    \/ CancelTest
    \/ WaitOne
    \/ Finish

Spec == Init /\ [][Next]_vars

\* a step of the driver or of a worker: every step but the user's
Steps ==
    \/ Call
    \/ WhileTest
    \/ CancelTest
    \/ WaitOne
    \/ Finish
    \/ \E j \in 1..NumProcs : WorkerFinish(j)

\* the driver thread and the dispatched workers keep running: while one of
\* them can take a step, one of them does. (Weaker than fairness of each of
\* them apart, so what holds under it holds under that too.) The user is free
\* never to cancel.
Fairness == WF_vars(Steps)

\* the calls on images that are 0.0 wherever node.sample does not raise: the
\* steps a call takes depend on the samples only through which of them raise
InitFair == Init /\ \A p \in DOMAIN node.val : node.val[p] = 0

SpecFair == InitFair /\ [][Next]_vars /\ Fairness

\* ------------------------------------------------------------ vocabulary
Terminal == pc \in {"returned", "raised"}

NumJobs == Len(chunks)

\* the sample points of a sub-region, stated without the loops: the pixels of
\* the inclusive rectangle whose offsets from (x1, y1) are multiples of st
Grid(r, st) ==
    { p \in (r.x1..r.x2) \X (r.y1..r.y2) :
        (p[1] - r.x1) % st = 0 /\ (p[2] - r.y1) % st = 0 }

\* the pixels some job is to sample
SamplePoints == UNION { Grid(chunks[j], step) : j \in 1..NumJobs }

SomeSampleRaises == \E p \in SamplePoints : p \in node.bad

NoFailedResult == \A i \in 1..Len(results) : ~results[i].exc

\* the first exception entry of mp.results
FirstException ==
    CHOOSE i \in 1..Len(results) :
        results[i].exc /\ \A j \in 1..(i - 1) : ~results[j].exc

\* C1: for centroid and max_value, a call whose first check of the polling
\* loop sees the cancellation flag set (so it aborts with no result
\* collected) returns None and raises nothing.
C1_CancelAtFirstCheckReturnsNone ==
    (Terminal /\ aborted /\ results = <<>>) => (pc = "returned" /\ ret = None)

\* C2: for centroid and max_value, a call that observes cancellation after at
\* least one job was collected successfully (results non-empty, no exception
\* in it) returns None and raises nothing.
C2_CancelAfterResultsReturnsNone ==
    (Terminal /\ aborted /\ results # <<>> /\ NoFailedResult)
        => (pc = "returned" /\ ret = None)

C4_RaisedMessageIsFirstFailure ==
    (pc = "raised" /\ ~aborted /\ ~NoFailedResult)
        => err = Str(results[FirstException])

\* C5: all or nothing: when mp.state() is failure at aggregation time the call
\* raises; a value is returned only when every submitted job was collected
\* successfully, never from a subset of the jobs.
C5_AllOrNothing ==
    /\ (Terminal /\ ~EngineState(results, aborted)) => pc = "raised"
    /\ pc = "returned" => (Len(results) = NumJobs /\ NoFailedResult)

\* the stride lands on both edges of the region in both axes
StrideDivides(r, st) == (r.x2 - r.x1) % st = 0 /\ (r.y2 - r.y1) % st = 0

UniformOne == node.bad = {} /\ \A p \in DOMAIN node.val : node.val[p] = 1

\* C6: on a region of uniform value 1.0, without failure or cancellation,
\* centroid returns the geometric center ((x1+x2)/2, (y1+y2)/2) for every
\* partition (equal or unequal sub-regions) and every stride that divides the
\* region.
C6_UniformCentroidIsCenter ==
    (pc = "returned" /\ op = "centroid" /\ ~aborted /\ UniformOne
        /\ StrideDivides(Region(node.bbox), step))
        => ret = <<Norm(Region(node.bbox).x1 + Region(node.bbox).x2, 2),
                   Norm(Region(node.bbox).y1 + Region(node.bbox).y2, 2)>>

\* max(0, largest pixel value of the bounding box), stated without the loops
LargestOrZero ==
    LET vs == {0} \cup { node.val[p] : p \in DOMAIN node.val }
    IN  Float(CHOOSE m \in vs : \A v \in vs : v <= m)

AllSamplesZero ==
    \A p \in SamplePoints : p \notin node.bad /\ node.val[p] = 0

\* C8: when every sampled value is 0.0, no job fails and the call is not
\* cancelled, centroid returns (0.0, 0.0): neither the aggregator nor a worker
\* divides by zero.
C8_AllZeroCentroid ==
    (Terminal /\ op = "centroid" /\ ~aborted /\ AllSamplesZero)
        => (pc = "returned" /\ ret = <<Zero, Zero>>)

C8_Witness ==
    /\ pc = "returned" /\ op = "centroid" /\ ~aborted /\ AllSamplesZero
    /\ NumJobs = 2 /\ Cardinality(SamplePoints) > 1
    /\ ret = <<Zero, Zero>>

\* C9: the worker pool is released on every exit path: in every terminal state
\* (returned, after a cancellation or not, or raised) the pool is released,
\* and it is held only while the call is running.
C9_PoolReleased ==
    /\ Terminal => pool = "released"
    /\ pool = "acquired" => pc \in {"while", "if", "wait_one", "aggregate"}

C9_Witness ==
    pc = "raised" /\ aborted /\ pending # {} /\ pool = "released"

\* the strides compared
Strides == 1..(MaxStep + 1)

\* the jobs whose worker has scanned its sub-region
Scanned == (1..NumJobs) \ pending

\* C10: for every region scanned during a call and strides s < s2, the scan
\* with s2 samples strictly fewer pixels than the scan with s.
C10_StrictlyFewerSamples ==
    Terminal =>
      \A j \in Scanned : \A s \in Strides : \A s2 \in (s + 1)..(MaxStep + 1) :
        NumSamples(chunks[j], s2) < NumSamples(chunks[j], s)

\* C10 as amended: a larger stride never samples more pixels, and any stride
\* above 1 samples strictly fewer pixels than stride 1 on a region of more
\* than one pixel.
C10_NoMoreSamples ==
    Terminal =>
      \A j \in Scanned : \A s \in Strides : \A s2 \in (s + 1)..(MaxStep + 1) :
        IF s = 1 /\ (chunks[j].x1 < chunks[j].x2 \/ chunks[j].y1 < chunks[j].y2)
        THEN NumSamples(chunks[j], s2) < NumSamples(chunks[j], s)
        ELSE NumSamples(chunks[j], s2) <= NumSamples(chunks[j], s)

C10_Witness ==
    \E j \in Scanned :
        /\ Terminal /\ step = 2
        /\ NumSamples(chunks[j], 1) = 3
        /\ NumSamples(chunks[j], 2) = 2
        /\ NumSamples(chunks[j], 3) = 1

\* C11: after each poll_one the value passed to setProgress is
\* floor(100 * completed_count / total_job_count), the total being the number
\* of jobs submitted; the value reported once all jobs are collected is 100.
C11_ProgressIsPercentOfJobs ==
    pc # "idle" =>
      /\ Len(progress) = Len(results) + 1
      /\ \A i \in 1..Len(results) : progress[i + 1] = (100 * i) \div NumJobs
      /\ Len(results) = NumJobs => progress[Len(progress)] = 100

\* C12: the driver reads the cancellation flag before every poll_one; once it
\* reads it set it calls abort() exactly once and makes no further poll_one or
\* setProgress call; so at most one poll_one returns between the moment the
\* flag is set and the call of abort().
C12_CancelOrdering ==
    /\ [](/\ calls.abort <= 1
          /\ aborted <=> calls.abort = 1
          /\ aborted => cancelled
          /\ calls.late_wait <= 1)
    /\ [][/\ (pc # "wait_one" /\ pc' = "wait_one") => (pc = "if" /\ ~cancelled)
          /\ (results' # results \/ (progress' # progress /\ pc # "idle"))
                => (pc = "wait_one" /\ ~aborted)
          /\ aborted => (aborted' /\ calls' = calls /\ results' = results
                         /\ progress' = progress)]_vars

C12_Witness ==
    /\ Terminal /\ aborted /\ calls.abort = 1 /\ calls.late_wait = 1
    /\ pending # {} /\ Len(results) = 1

\* C13: when every dispatched worker eventually finishes, every call ends
\* (returned or raised) under every interleaving of worker completions with
\* the driver's steps; the driver is never left blocked in poll_one, also when
\* the last job completes between the is_working() test and poll_one.
C13_Terminates == <>Terminal

\* the driver is about to block in poll_one for the last job, which has
\* already completed
C13_Witness ==
    /\ pc = "wait_one" /\ pending = {} /\ NumJobs = 2
    /\ Len(results) = 1 /\ Len(completed) = 1 /\ ~cancelled

\* the outcomes of the jobs in the order of submission
InOrder == [j \in 1..NumJobs |-> JobFunction(op, chunks[j], node, step)]

Visited(px) == { px[k] : k \in 1..Len(px) }

\* C15: the loops of a worker on region (x1, y1, x2, y2) with stride step
\* visit exactly the pixels (x1 + i*step, y1 + j*step) inside the region, each
\* once, and none outside; with step 1 every pixel of the rectangle once.
C15_ScanVisitsGrid ==
    Terminal =>
      \A j \in Scanned : \A px \in {Scan(chunks[j], step)} :
        /\ Visited(px) = Grid(chunks[j], step)
        /\ Len(px) = Cardinality(Visited(px))
        /\ step = 1 =>
             Visited(px) = (chunks[j].x1..chunks[j].x2) \X (chunks[j].y1..chunks[j].y2)

C15_Witness ==
    /\ Terminal /\ step = 2
    /\ \E j \in Scanned :
          /\ chunks[j].y2 - chunks[j].y1 = 2
          /\ Scan(chunks[j], step) =
                <<<<chunks[j].x1, chunks[j].y1>>, <<chunks[j].x1, chunks[j].y2>>>>

\* the sum over the first k pixels of px of weight (c = 0), weight * x (c = 1)
\* or weight * y (c = 2)
RECURSIVE WeightedSum(_, _, _, _)
WeightedSum(nd, px, c, k) ==
    IF k = 0 THEN 0
    ELSE WeightedSum(nd, px, c, k - 1)
         + nd.val[px[k]] * (IF c = 0 THEN 1 ELSE px[k][c])

\* (sum w*x / k, sum w*y / k, sum w / k) over the first k pixels of px
PlainMeans(nd, px, k) ==
    IF k = 0 THEN <<Zero, Zero, Zero>>
    ELSE <<Norm(WeightedSum(nd, px, 1, k), k), Norm(WeightedSum(nd, px, 2, k), k),
           Norm(WeightedSum(nd, px, 0, k), k)>>

\* C16: in exact arithmetic the incremental update of _centroid computes plain
\* averages: after n >= 1 samples the three means are sum(w*x)/n, sum(w*y)/n
\* and sum(w)/n, after every sample of the scan, and (0.0, 0.0, 0.0) before
\* the first; the value the job hands back is the one after the last sample.
C16_RunningMeansArePlainMeans ==
    (Terminal /\ op = "centroid") =>
      \A j \in Scanned : \A px \in {Scan(chunks[j], step)} :
        (Visited(px) \cap node.bad = {}) =>
          /\ \A k \in 0..Len(px) :
                CentroidLoop(node, SubSeq(px, 1, k), 1, Zero, Zero, Zero, 0)
                    = Value(PlainMeans(node, px, k))
          /\ \E i \in 1..(Len(results) + Len(completed)) :
                (results \o completed)[i] = Value(PlainMeans(node, px, Len(px)))

C16_Witness ==
    /\ Terminal /\ op = "centroid" /\ step = 1 /\ node.bad = {}
    /\ \E j \in Scanned :
          /\ NumSamples(chunks[j], step) = 3
          /\ \E p \in Grid(chunks[j], step) : node.val[p] = 1
          /\ \E p \in Grid(chunks[j], step) : node.val[p] = 0

\* C17: within a call the values passed to setProgress start at 0, never
\* decrease and all lie in 0..100, in every interleaving.
C17_ProgressMonotone ==
    progress # <<>> =>
      /\ progress[1] = 0
      /\ \A i \in 1..Len(progress) : progress[i] \in 0..100
      /\ \A i \in 1..(Len(progress) - 1) : progress[i] <= progress[i + 1]

C17_Witness == Terminal /\ ~aborted /\ progress = <<0, 50, 100>>

\* the sum over the pixels of S of weight (c = 0), weight * x (c = 1) or
\* weight * y (c = 2)
RECURSIVE SetSum(_, _, _)
SetSum(nd, S, c) ==
    IF S = {} THEN 0
    ELSE LET p == CHOOSE q \in S : TRUE
         IN  nd.val[p] * (IF c = 0 THEN 1 ELSE p[c]) + SetSum(nd, S \ {p}, c)

EqualSampleCounts ==
    \A i \in 1..NumJobs : \A j \in 1..NumJobs :
        Cardinality(Grid(chunks[i], step)) = Cardinality(Grid(chunks[j], step))

\* C18: when every sub-region holds the same number of sample points, all
\* jobs succeed, the call is not cancelled and the total sampled weight is
\* positive, centroid returns the weighted centroid of the sample points of
\* all sub-regions, (sum(w*x)/sum(w), sum(w*y)/sum(w)), in exact arithmetic.
C18_WeightedCentroid ==
    (pc = "returned" /\ op = "centroid" /\ ~aborted /\ EqualSampleCounts) =>
      \A sw \in {SetSum(node, SamplePoints, 0)} :
        sw > 0 => ret = <<Norm(SetSum(node, SamplePoints, 1), sw),
                          Norm(SetSum(node, SamplePoints, 2), sw)>>

C18_Witness ==
    /\ pc = "returned" /\ op = "centroid" /\ ~aborted /\ EqualSampleCounts
    /\ NumJobs = 2 /\ SetSum(node, SamplePoints, 0) = 1
    /\ ret[2] \in {Float(2), Float(3)}

====
